---- MODULE Spec2Model ----
(***************************************************************************)
(* Mergington High School API (src/src/app.py): the in-memory activity     *)
(* store, the teacher credentials, the admin session table and the HTTP    *)
(* handlers over them.  Requests are handled one at a time; each handler   *)
(* is one action.                                                          *)
(*                                                                         *)
(* Strings the code inspects (the Authorization header, tokens) are        *)
(* sequences of one-character strings; strings it only compares (activity  *)
(* names, emails, usernames, passwords) are TLA+ strings.  Time is in      *)
(* hours since process start.  issued records, for each value uuid4 has    *)
(* returned, the hour at which the login that received it ran.  workers    *)
(* holds, for each thread of the server's pool, the signup or unregister   *)
(* call it is inside of (between the membership check and the list         *)
(* mutation) and the status of the last call it finished; it is used by    *)
(* the specification that interleaves handlers and is idle otherwise.      *)
(***************************************************************************)
EXTENDS Integers, Sequences, FiniteSets, TLC

VARIABLES activities, TEACHER_CREDS, ADMIN_SESSIONS, now, issued, last, workers

vars == <<activities, TEACHER_CREDS, ADMIN_SESSIONS, now, issued, last, workers>>

(***************************************************************************)
(* Bounds of the model.                                                    *)
(***************************************************************************)
\* number of distinct values uuid4 can hand out
MaxTokens == 2
\* the clock stops advancing at MaxTime hours
MaxTime == 16
\* the clock advances in steps of ClockStep hours
ClockStep == 8
\* the most signups Math Club has already taken when the capacity
\* specification starts
MaxPrefill == 8

(***************************************************************************)
(* Python values.                                                          *)
(***************************************************************************)
\* Python's None where a string is expected (a missing JSON key)
None == "<None>"

\* Python's None where a header (a sequence of characters) is expected
NoHeader == <<"<None>">>

\* truthiness of an Optional[str]
Truthy(x) == x # None /\ x # ""

\* truthiness of an optional header
TruthyHdr(h) == h # NoHeader /\ h # <<>>

\* s.startswith(p)
StartsWith(s, p) == Len(s) >= Len(p) /\ SubSeq(s, 1, Len(p)) = p

\* index of the first occurrence of character c in s (0 when absent)
Find(s, c) ==
  IF \E i \in 1..Len(s) : s[i] = c
  THEN CHOOSE i \in 1..Len(s) : s[i] = c /\ \A j \in 1..(i - 1) : s[j] # c
  ELSE 0

\* s.split(" ", 1)[1], for s holding a space
SplitOnce1(s) == SubSeq(s, Find(s, " ") + 1, Len(s))

\* x in xs, for a Python list
InList(x, xs) == \E i \in 1..Len(xs) : xs[i] = x

\* a remove that drops the last element instead (xs.pop())
ListRemove_Pop(xs, x) == SubSeq(xs, 1, Len(xs) - 1)

\* xs.remove(x): drops the first occurrence of x
ListRemove(xs, x) ==
  LET i == CHOOSE k \in 1..Len(xs) : xs[k] = x /\ \A j \in 1..(k - 1) : xs[j] # x
  IN SubSeq(xs, 1, i - 1) \o SubSeq(xs, i + 1, Len(xs))

\* number of occurrences of x in xs
Count(xs, x) == Cardinality({i \in 1..Len(xs) : xs[i] = x})

(***************************************************************************)
(* Seed data.                                                              *)
(***************************************************************************)
Activity(d, s, m, p) ==
  [description |-> d, schedule |-> s, max_participants |-> m, participants |-> p]

SeedActivities ==
  [n \in {"Chess Club", "Programming Class", "Gym Class", "Soccer Team",
          "Basketball Team", "Art Club", "Drama Club", "Math Club", "Debate Team"} |->
    CASE n = "Chess Club" ->
           Activity("Learn strategies and compete in chess tournaments",
                    "Fridays, 3:30 PM - 5:00 PM", 12,
                    <<"michael@mergington.edu", "daniel@mergington.edu">>)
      [] n = "Programming Class" ->
           Activity("Learn programming fundamentals and build software projects",
                    "Tuesdays and Thursdays, 3:30 PM - 4:30 PM", 20,
                    <<"emma@mergington.edu", "sophia@mergington.edu">>)
      [] n = "Gym Class" ->
           Activity("Physical education and sports activities",
                    "Mondays, Wednesdays, Fridays, 2:00 PM - 3:00 PM", 30,
                    <<"john@mergington.edu", "olivia@mergington.edu">>)
      [] n = "Soccer Team" ->
           Activity("Join the school soccer team and compete in matches",
                    "Tuesdays and Thursdays, 4:00 PM - 5:30 PM", 22,
                    <<"liam@mergington.edu", "noah@mergington.edu">>)
      [] n = "Basketball Team" ->
           Activity("Practice and play basketball with the school team",
                    "Wednesdays and Fridays, 3:30 PM - 5:00 PM", 15,
                    <<"ava@mergington.edu", "mia@mergington.edu">>)
      [] n = "Art Club" ->
           Activity("Explore your creativity through painting and drawing",
                    "Thursdays, 3:30 PM - 5:00 PM", 15,
                    <<"amelia@mergington.edu", "harper@mergington.edu">>)
      [] n = "Drama Club" ->
           Activity("Act, direct, and produce plays and performances",
                    "Mondays and Wednesdays, 4:00 PM - 5:30 PM", 20,
                    <<"ella@mergington.edu", "scarlett@mergington.edu">>)
      [] n = "Math Club" ->
           Activity("Solve challenging problems and participate in math competitions",
                    "Tuesdays, 3:30 PM - 4:30 PM", 10,
                    <<"james@mergington.edu", "benjamin@mergington.edu">>)
      [] n = "Debate Team" ->
           Activity("Develop public speaking and argumentation skills",
                    "Fridays, 4:00 PM - 5:30 PM", 12,
                    <<"charlotte@mergington.edu", "henry@mergington.edu">>)]

(***************************************************************************)
(* Teacher credentials, loaded once at import.                             *)
(***************************************************************************)
EmptyCreds == [teachers |-> <<>>]

\* the contents teacher_credentials.json may have: absent, not JSON, or a
\* {"teachers": [...]} document
CredFiles ==
  { [kind |-> "missing", doc |-> EmptyCreds],
    [kind |-> "garbled", doc |-> EmptyCreds],
    [kind |-> "json", doc |-> EmptyCreds],
    [kind |-> "json",
     doc |-> [teachers |-> << [username |-> "teacher", password |-> "pw"],
                              [username |-> "admin", password |-> "pw2"] >>]] }

\* module-level load of TEACHER_CREDS: the default stays when the file does
\* not exist, and comes back when open or json.load raises; whatever
\* json.load returns is kept as it is
LoadCreds(file) ==
  IF file.kind = "missing" THEN EmptyCreds
  ELSE IF file.kind \in {"garbled", "unreadable"} THEN EmptyCreds
  ELSE file.doc

\* a JSON value that is not an object (a list at the top level, a string in
\* a list of teachers): a Python value without a get method
NonDict(pytype) == [pytype |-> pytype]

\* whether v.get(...) can be called: v is a dict
HasGet(v) == "pytype" \notin DOMAIN v

\* d.get(key, default)
Get(d, key, default) == IF key \in DOMAIN d THEN d[key] ELSE default

\* teacher_credentials.json missing, unreadable, not JSON, or JSON of another
\* shape than {"teachers": [{username, password}, ...]}:
\*   []                                        {"users": [{...}]}
\*   {"teachers": [{"username": "teacher"}]}
\*   {"teachers": [{"username": "teacher", "password": "pw"}, "admin"]}
\*   {"teachers": ["admin", {"username": "teacher", "password": "pw"}]}
MalformedCredFiles ==
  << [kind |-> "missing", doc |-> EmptyCreds],
     [kind |-> "unreadable", doc |-> EmptyCreds],
     [kind |-> "garbled", doc |-> EmptyCreds],
     [kind |-> "json", doc |-> NonDict("list")],
     [kind |-> "json", doc |-> [users |-> << [username |-> "teacher", password |-> "pw"] >>]],
     [kind |-> "json", doc |-> [teachers |-> << [username |-> "teacher"] >>]],
     [kind |-> "json",
      doc |-> [teachers |-> << [username |-> "teacher", password |-> "pw"],
                               NonDict("str") >>]],
     [kind |-> "json",
      doc |-> [teachers |-> << NonDict("str"),
                               [username |-> "teacher", password |-> "pw"] >>]] >>

(***************************************************************************)
(* Session manager.                                                        *)
(***************************************************************************)
\* timedelta(hours=8)
TTL_HOURS == 8

HexDigits == <<"a", "b", "c", "d", "e", "f", "0", "1", "2", "3">>

\* the values uuid.uuid4().hex can return
Tokens == {<<HexDigits[i]>> : i \in 1..MaxTokens}

\* datetime.isoformat(): the hour count rendered as two decimal digits
IsoFormat(t) == <<t \div 10, t % 10>>

\* datetime.fromisoformat(): the digits read back as a number
FromIsoFormat(s) == s[1] * 10 + s[2]

\* ADMIN_SESSIONS: dict = {}
EmptySessions == [k \in {} |-> <<>>]

BearerPrefix == <<"B", "e", "a", "r", "e", "r", " ">>

\* a strip that cuts the word "Bearer" and leaves the space
StripBearer_KeepsSpace(token) ==
  IF StartsWith(token, BearerPrefix) THEN SubSeq(token, 7, Len(token)) ELSE token

\* the optional "Bearer " prefix stripped
StripBearer(token) ==
  IF StartsWith(token, BearerPrefix) THEN SplitOnce1(token) ELSE token

\* _create_admin_token, with uuid4 returning tok at time t: the new table
CreateAdminToken(sessions, tok, t) ==
  [k \in DOMAIN sessions \cup {tok} |->
     IF k = tok THEN IsoFormat(t + TTL_HOURS) ELSE sessions[k]]

\* dict.pop(k, None): the table without k
Pop(sessions, k) == [j \in DOMAIN sessions \ {k} |-> sessions[j]]

\* a validation that also sweeps every other expired entry out of the table
ValidateAdminToken_Sweep(sessions, token, t) ==
  LET swept == [k \in {j \in DOMAIN sessions : t <= FromIsoFormat(sessions[j])} |->
                  sessions[k]] IN
  IF ~TruthyHdr(token) THEN [ok |-> FALSE, sessions |-> sessions]
  ELSE LET tk == StripBearer(token) IN
    IF tk \notin DOMAIN sessions THEN [ok |-> FALSE, sessions |-> swept]
    ELSE IF t > FromIsoFormat(sessions[tk])
      THEN [ok |-> FALSE, sessions |-> swept]
      ELSE [ok |-> TRUE, sessions |-> swept]

\* a validation that already rejects at the expiry instant (>= for >)
ValidateAdminToken_ExpiresEarly(sessions, token, t) ==
  IF ~TruthyHdr(token) THEN [ok |-> FALSE, sessions |-> sessions]
  ELSE LET tk == StripBearer(token) IN
    IF tk \notin DOMAIN sessions THEN [ok |-> FALSE, sessions |-> sessions]
    ELSE IF t >= FromIsoFormat(sessions[tk])
      THEN [ok |-> FALSE, sessions |-> Pop(sessions, tk)]
      ELSE [ok |-> TRUE, sessions |-> sessions]

\* _validate_admin_token(token) at time t: the result and the table it leaves
\* (a stored expiry is never empty and always parses, so the two early
\* returns for a falsy or unparsable expiry are the unknown-token return)
ValidateAdminToken(sessions, token, t) ==
  IF ~TruthyHdr(token) THEN [ok |-> FALSE, sessions |-> sessions]
  ELSE LET tk == StripBearer(token) IN
    IF tk \notin DOMAIN sessions THEN [ok |-> FALSE, sessions |-> sessions]
    ELSE IF t > FromIsoFormat(sessions[tk])
      THEN [ok |-> FALSE, sessions |-> Pop(sessions, tk)]
      ELSE [ok |-> TRUE, sessions |-> sessions]

\* require_admin(authorization)
RequireAdmin(sessions, authorization, t) ==
  ValidateAdminToken(sessions, IF authorization = NoHeader THEN <<>> ELSE authorization, t)

(***************************************************************************)
(* Requests and responses.                                                 *)
(***************************************************************************)
\* a seeded activity and a name that is not an activity
ActivityNameInputs == {"Chess Club", "Knitting Club"}

\* a seeded participant of Chess Club and a student not enrolled anywhere
EmailInputs == {"michael@mergington.edu", "new@mergington.edu"}

\* login bodies: a field missing or empty, a wrong pair, the two teachers
LoginInputs ==
  { <<None, "pw">>, <<"", "pw">>, <<"teacher", None>>, <<"teacher", "">>,
    <<"teacher", "pw2">>, <<"admin", "pw">>, <<"teacher", "pw">>, <<"admin", "pw2">> }

\* Authorization headers: absent, empty, the bare prefix, garbage, and each
\* token value raw and prefixed
HeaderInputs ==
  {NoHeader, <<>>, BearerPrefix, <<"z", "z">>}
    \cup Tokens \cup {BearerPrefix \o k : k \in Tokens}

\* the response of the latest request, with the Authorization header the
\* request carried
Response(op, hdr, status, token, body) ==
  [op |-> op, hdr |-> hdr, status |-> status, token |-> token, body |-> body]

NoResponse == Response("none", NoHeader, 0, <<>>, <<>>)

\* the threads that run the handlers (def endpoints run in a thread pool)
Workers == {"w1", "w2"}

\* a thread outside a handler; op and status are those of the call it
\* finished last
IdleWorker(op, status) ==
  [pc |-> "idle", op |-> op, name |-> "", email |-> "", status |-> status]

\* a thread inside a handler, past the checks and before the list mutation
BusyWorker(pc, op, name, email) ==
  [pc |-> pc, op |-> op, name |-> name, email |-> email, status |-> 0]

Init ==
  /\ activities = SeedActivities
  /\ \E file \in CredFiles : TEACHER_CREDS = LoadCreds(file)
  /\ ADMIN_SESSIONS = EmptySessions
  /\ now = 0
  /\ issued = [k \in {} |-> 0]
  /\ last = NoResponse
  /\ workers = [w \in Workers |-> IdleWorker("none", 0)]

(***************************************************************************)
(* Handlers: the status each returns and the state it leaves.              *)
(***************************************************************************)
\* a signup that refuses callers while no admin session exists
SignupForActivity_RequiresSession(acts, activity_name, email) ==
  IF DOMAIN ADMIN_SESSIONS = {}
    THEN [status |-> 401, activities |-> acts]
  ELSE IF activity_name \notin DOMAIN acts
    THEN [status |-> 404, activities |-> acts]
  ELSE IF InList(email, acts[activity_name].participants)
    THEN [status |-> 400, activities |-> acts]
  ELSE [status |-> 200,
        activities |-> [acts EXCEPT ![activity_name].participants = Append(@, email)]]

\* a signup that inserts the student at the head of the list
SignupForActivity_Prepend(acts, activity_name, email) ==
  IF activity_name \notin DOMAIN acts
    THEN [status |-> 404, activities |-> acts]
  ELSE IF InList(email, acts[activity_name].participants)
    THEN [status |-> 400, activities |-> acts]
  ELSE [status |-> 200,
        activities |-> [acts EXCEPT ![activity_name].participants = <<email>> \o @]]

\* a signup that enrols the student in every activity
SignupForActivity_AllActivities(acts, activity_name, email) ==
  IF activity_name \notin DOMAIN acts
    THEN [status |-> 404, activities |-> acts]
  ELSE IF InList(email, acts[activity_name].participants)
    THEN [status |-> 400, activities |-> acts]
  ELSE [status |-> 200,
        activities |-> [n \in DOMAIN acts |->
                          [acts[n] EXCEPT !.participants = Append(@, email)]]]

\* a signup that refuses a full activity
SignupForActivity_CapacityGuard(acts, activity_name, email) ==
  IF activity_name \notin DOMAIN acts
    THEN [status |-> 404, activities |-> acts]
  ELSE IF InList(email, acts[activity_name].participants)
    THEN [status |-> 400, activities |-> acts]
  ELSE IF Len(acts[activity_name].participants) >= acts[activity_name].max_participants
    THEN [status |-> 400, activities |-> acts]
  ELSE [status |-> 200,
        activities |-> [acts EXCEPT ![activity_name].participants = Append(@, email)]]

\* a signup without the already-signed-up check
SignupForActivity_NoDuplicateCheck(acts, activity_name, email) ==
  IF activity_name \notin DOMAIN acts
    THEN [status |-> 404, activities |-> acts]
  ELSE [status |-> 200,
        activities |-> [acts EXCEPT ![activity_name].participants = Append(@, email)]]

\* a signup that appends before it checks for a duplicate
SignupForActivity_AppendThenCheck(acts, activity_name, email) ==
  IF activity_name \notin DOMAIN acts
    THEN [status |-> 404, activities |-> acts]
  ELSE LET added == [acts EXCEPT ![activity_name].participants = Append(@, email)] IN
    IF InList(email, acts[activity_name].participants)
      THEN [status |-> 400, activities |-> added]
      ELSE [status |-> 200, activities |-> added]

\* POST /activities/{activity_name}/signup
SignupForActivity(acts, activity_name, email) ==
  IF activity_name \notin DOMAIN acts
    THEN [status |-> 404, activities |-> acts]
  ELSE IF InList(email, acts[activity_name].participants)
    THEN [status |-> 400, activities |-> acts]
  ELSE [status |-> 200,
        activities |-> [acts EXCEPT ![activity_name].participants = Append(@, email)]]

\* an unregister that skips the activity lookup and reports an unknown name
\* as a student who is not signed up
UnregisterFromActivity_NoLookup(acts, sessions, activity_name, email, authorization, t) ==
  LET v == RequireAdmin(sessions, authorization, t) IN
  IF ~v.ok
    THEN [status |-> 401, activities |-> acts, sessions |-> v.sessions]
  ELSE IF activity_name \notin DOMAIN acts
           \/ ~InList(email, acts[activity_name].participants)
    THEN [status |-> 400, activities |-> acts, sessions |-> v.sessions]
  ELSE [status |-> 200,
        activities |-> [acts EXCEPT ![activity_name].participants = ListRemove(@, email)],
        sessions |-> v.sessions]

\* an unregister that looks the activity up before it authenticates
UnregisterFromActivity_LookupFirst(acts, sessions, activity_name, email, authorization, t) ==
  LET v == RequireAdmin(sessions, authorization, t) IN
  IF activity_name \notin DOMAIN acts
    THEN [status |-> 404, activities |-> acts, sessions |-> sessions]
  ELSE IF ~v.ok
    THEN [status |-> 401, activities |-> acts, sessions |-> v.sessions]
  ELSE IF ~InList(email, acts[activity_name].participants)
    THEN [status |-> 400, activities |-> acts, sessions |-> v.sessions]
  ELSE [status |-> 200,
        activities |-> [acts EXCEPT ![activity_name].participants = ListRemove(@, email)],
        sessions |-> v.sessions]

\* DELETE /activities/{activity_name}/unregister, with its require_admin dependency
UnregisterFromActivity(acts, sessions, activity_name, email, authorization, t) ==
  LET v == RequireAdmin(sessions, authorization, t) IN
  IF ~v.ok
    THEN [status |-> 401, activities |-> acts, sessions |-> v.sessions]
  ELSE IF activity_name \notin DOMAIN acts
    THEN [status |-> 404, activities |-> acts, sessions |-> v.sessions]
  ELSE IF ~InList(email, acts[activity_name].participants)
    THEN [status |-> 400, activities |-> acts, sessions |-> v.sessions]
  ELSE [status |-> 200,
        activities |-> [acts EXCEPT ![activity_name].participants = ListRemove(@, email)],
        sessions |-> v.sessions]

\* a scan that accepts a known username with any password
CredentialsMatch_UsernameOnly(creds, username, password) ==
  \E i \in 1..Len(creds.teachers) : creds.teachers[i].username = username

\* the loop of admin_login over TEACHER_CREDS.get("teachers", []): it ends
\* at the first teacher with both values ("match"), raises AttributeError
\* when TEACHER_CREDS or an item reached before a match has no get method
\* ("raise"), and falls through otherwise ("none")
TeacherScan(creds, username, password) ==
  IF ~HasGet(creds) THEN "raise"
  ELSE
    LET teachers == Get(creds, "teachers", <<>>)
        Hit(i) == /\ HasGet(teachers[i])
                  /\ Get(teachers[i], "username", None) = username
                  /\ Get(teachers[i], "password", None) = password
        stops == {i \in 1..Len(teachers) : ~HasGet(teachers[i]) \/ Hit(i)}
    IN IF stops = {} THEN "none"
       ELSE LET first == CHOOSE i \in stops : \A j \in stops : i <= j
            IN IF HasGet(teachers[first]) THEN "match" ELSE "raise"

\* the scan of TEACHER_CREDS in admin_login finds a teacher with both values
CredentialsMatch(creds, username, password) ==
  TeacherScan(creds, username, password) = "match"

\* POST /admin/login, with uuid4 returning tok
AdminLogin(creds, sessions, username, password, tok, t) ==
  IF ~Truthy(username) \/ ~Truthy(password)
    THEN [status |-> 400, sessions |-> sessions, token |-> <<>>]
  ELSE IF TeacherScan(creds, username, password) = "raise"
    THEN [status |-> 500, sessions |-> sessions, token |-> <<>>]
  ELSE IF CredentialsMatch(creds, username, password)
    THEN [status |-> 200, sessions |-> CreateAdminToken(sessions, tok, t), token |-> tok]
  ELSE [status |-> 401, sessions |-> sessions, token |-> <<>>]

\* a listing that returns the seed data instead of the live store
GetActivitiesBody_Seed(acts) == SeedActivities

\* get_activities: the body it returns
GetActivitiesBody(acts) == acts

\* a logout that pops the header as sent, prefix included
AdminLogout_NoStrip(sessions, authorization) ==
  IF ~TruthyHdr(authorization)
    THEN [status |-> 400, sessions |-> sessions]
  ELSE [status |-> 200, sessions |-> Pop(sessions, authorization)]

\* a logout that refuses a token that is not in the table
AdminLogout_RequiresSession(sessions, authorization) ==
  IF ~TruthyHdr(authorization)
    THEN [status |-> 400, sessions |-> sessions]
  ELSE IF StripBearer(authorization) \notin DOMAIN sessions
    THEN [status |-> 401, sessions |-> sessions]
  ELSE [status |-> 200, sessions |-> Pop(sessions, StripBearer(authorization))]

\* POST /admin/logout
AdminLogout(sessions, authorization) ==
  IF ~TruthyHdr(authorization)
    THEN [status |-> 400, sessions |-> sessions]
  ELSE [status |-> 200, sessions |-> Pop(sessions, StripBearer(authorization))]

(***************************************************************************)
(* Actions.                                                                *)
(***************************************************************************)
Signup(n, e) ==
  LET r == SignupForActivity(activities, n, e) IN
  /\ activities' = r.activities
  /\ last' = Response("signup", NoHeader, r.status, <<>>, <<>>)
  /\ UNCHANGED <<TEACHER_CREDS, ADMIN_SESSIONS, now, issued, workers>>

Unregister(n, e, h) ==
  LET r == UnregisterFromActivity(activities, ADMIN_SESSIONS, n, e, h, now) IN
  /\ activities' = r.activities
  /\ ADMIN_SESSIONS' = r.sessions
  /\ last' = Response("unregister", h, r.status, <<>>, <<>>)
  /\ UNCHANGED <<TEACHER_CREDS, now, issued, workers>>

\* uuid4 is called only by a login that succeeds, and returns a value it has
\* not returned before
Login(u, p) ==
  \E tok \in (Tokens \ DOMAIN issued) \cup {<<>>} :
    LET r == AdminLogin(TEACHER_CREDS, ADMIN_SESSIONS, u, p, tok, now) IN
    /\ (r.status = 200) = (tok # <<>>)
    /\ ADMIN_SESSIONS' = r.sessions
    /\ issued' = IF r.status = 200
                   THEN [k \in DOMAIN issued \cup {tok} |-> IF k = tok THEN now ELSE issued[k]]
                   ELSE issued
    /\ last' = Response("login", NoHeader, r.status, r.token, <<>>)
    /\ UNCHANGED <<activities, TEACHER_CREDS, now, workers>>

Logout(h) ==
  LET r == AdminLogout(ADMIN_SESSIONS, h) IN
  /\ ADMIN_SESSIONS' = r.sessions
  /\ last' = Response("logout", h, r.status, <<>>, <<>>)
  /\ UNCHANGED <<activities, TEACHER_CREDS, now, issued, workers>>

\* GET /activities
GetActivities ==
  /\ last' = Response("list", NoHeader, 200, <<>>, GetActivitiesBody(activities))
  /\ UNCHANGED <<activities, TEACHER_CREDS, ADMIN_SESSIONS, now, issued, workers>>

\* GET /
Root ==
  /\ last' = Response("root", NoHeader, 307, <<>>, <<>>)
  /\ UNCHANGED <<activities, TEACHER_CREDS, ADMIN_SESSIONS, now, issued, workers>>

\* time passes between requests
Tick ==
  /\ now + ClockStep <= MaxTime
  /\ now' = now + ClockStep
  /\ last' = NoResponse
  /\ UNCHANGED <<activities, TEACHER_CREDS, ADMIN_SESSIONS, issued, workers>>

Next ==
  \/ \E n \in ActivityNameInputs, e \in EmailInputs : Signup(n, e)
  \/ \E n \in ActivityNameInputs, e \in EmailInputs, h \in HeaderInputs : Unregister(n, e, h)
  \/ \E c \in LoginInputs : Login(c[1], c[2])
  \/ \E h \in HeaderInputs : Logout(h)
  \/ GetActivities
  \/ Root
  \/ Tick

Spec == Init /\ [][Next]_vars

(***************************************************************************)
(* An activity near its capacity.  Math Club (max_participants 10, two     *)
(* seeded students) starts in the state that up to MaxPrefill signup       *)
(* requests, one per student of EarlierStudents, have left it in.          *)
(***************************************************************************)
EarlierStudents ==
  << "student1@mergington.edu", "student2@mergington.edu", "student3@mergington.edu",
     "student4@mergington.edu", "student5@mergington.edu", "student6@mergington.edu",
     "student7@mergington.edu", "student8@mergington.edu", "student9@mergington.edu",
     "student10@mergington.edu" >>

\* the store after signup requests for the first k students of EarlierStudents
RECURSIVE AfterSignups(_, _, _)
AfterSignups(acts, activity_name, k) ==
  IF k = 0 THEN acts
  ELSE SignupForActivity(AfterSignups(acts, activity_name, k - 1),
                         activity_name, EarlierStudents[k]).activities

\* two students who are not in Math Club and one who may be
CapacityEmailInputs == EmailInputs \cup {EarlierStudents[1]}

InitCapacity ==
  /\ \E k \in 0..MaxPrefill : activities = AfterSignups(SeedActivities, "Math Club", k)
  /\ \E file \in CredFiles : TEACHER_CREDS = LoadCreds(file)
  /\ ADMIN_SESSIONS = EmptySessions
  /\ now = 0
  /\ issued = [k \in {} |-> 0]
  /\ last = NoResponse
  /\ workers = [w \in Workers |-> IdleWorker("none", 0)]

NextCapacity ==
  \/ \E e \in CapacityEmailInputs : Signup("Math Club", e)
  \/ GetActivities

SpecCapacity == InitCapacity /\ [][NextCapacity]_vars

(***************************************************************************)
(* The application started with a credential file that is missing,         *)
(* unreadable or malformed.                                                *)
(***************************************************************************)
InitMalformedCreds ==
  /\ activities = SeedActivities
  /\ \E i \in 1..Len(MalformedCredFiles) : TEACHER_CREDS = LoadCreds(MalformedCredFiles[i])
  /\ ADMIN_SESSIONS = EmptySessions
  /\ now = 0
  /\ issued = [k \in {} |-> 0]
  /\ last = NoResponse
  /\ workers = [w \in Workers |-> IdleWorker("none", 0)]

NextMalformedCreds ==
  \/ \E c \in LoginInputs : Login(c[1], c[2])
  \/ \E e \in EmailInputs, h \in HeaderInputs : Unregister("Chess Club", e, h)
  \/ Tick

SpecMalformedCreds == InitMalformedCreds /\ [][NextMalformedCreds]_vars

(***************************************************************************)
(* Handlers run by several threads.  A def endpoint runs in the server's   *)
(* thread pool, so a thread can be preempted between the membership check  *)
(* of a handler and its list mutation; each of the two is one step.        *)
(***************************************************************************)
\* signup_for_activity up to its membership check: the status it raises, or
\* 0 when it goes on to the append
SignupCheck(acts, activity_name, email) ==
  IF activity_name \notin DOMAIN acts THEN 404
  ELSE IF InList(email, acts[activity_name].participants) THEN 400
  ELSE 0

\* an append that looks again and refuses a student who is in the list by now
SignupAppend_Rechecks(acts, activity_name, email) ==
  IF InList(email, acts[activity_name].participants)
    THEN [status |-> 400, activities |-> acts]
    ELSE [status |-> 200,
          activities |-> [acts EXCEPT ![activity_name].participants = Append(@, email)]]

\* signup_for_activity from the append on
SignupAppend(acts, activity_name, email) ==
  [status |-> 200,
   activities |-> [acts EXCEPT ![activity_name].participants = Append(@, email)]]

\* unregister_from_activity up to its membership check, require_admin
\* included: the status it raises (0 when it goes on to the remove) and the
\* session table it leaves
UnregisterCheck(acts, sessions, activity_name, email, authorization, t) ==
  LET v == RequireAdmin(sessions, authorization, t) IN
  [status |-> IF ~v.ok THEN 401
              ELSE IF activity_name \notin DOMAIN acts THEN 404
              ELSE IF ~InList(email, acts[activity_name].participants) THEN 400
              ELSE 0,
   sessions |-> v.sessions]

\* unregister_from_activity from the remove on: list.remove raises ValueError
\* for a value that is not in the list, which no handler catches, so the
\* server answers 500
UnregisterRemove(acts, activity_name, email) ==
  IF InList(email, acts[activity_name].participants)
    THEN [status |-> 200,
          activities |-> [acts EXCEPT ![activity_name].participants = ListRemove(@, email)]]
    ELSE [status |-> 500, activities |-> acts]

\* the seeded activity
ConcNameInputs == {"Chess Club"}

\* no header, and each token value
ConcHeaderInputs == {NoHeader} \cup Tokens

BeginSignup(w, n, e) ==
  LET c == SignupCheck(activities, n, e) IN
  /\ workers[w].pc = "idle"
  /\ workers' = [workers EXCEPT ![w] = IF c = 0 THEN BusyWorker("append", "signup", n, e)
                                                ELSE IdleWorker("signup", c)]
  /\ UNCHANGED <<activities, TEACHER_CREDS, ADMIN_SESSIONS, now, issued, last>>

FinishSignup(w) ==
  LET r == SignupAppend(activities, workers[w].name, workers[w].email) IN
  /\ workers[w].pc = "append"
  /\ activities' = r.activities
  /\ workers' = [workers EXCEPT ![w] = IdleWorker("signup", r.status)]
  /\ UNCHANGED <<TEACHER_CREDS, ADMIN_SESSIONS, now, issued, last>>

BeginUnregister(w, n, e, h) ==
  LET c == UnregisterCheck(activities, ADMIN_SESSIONS, n, e, h, now) IN
  /\ workers[w].pc = "idle"
  /\ ADMIN_SESSIONS' = c.sessions
  /\ workers' = [workers EXCEPT ![w] = IF c.status = 0
                                         THEN BusyWorker("remove", "unregister", n, e)
                                         ELSE IdleWorker("unregister", c.status)]
  /\ UNCHANGED <<activities, TEACHER_CREDS, now, issued, last>>

FinishUnregister(w) ==
  /\ workers[w].pc = "remove"
  /\ LET r == UnregisterRemove(activities, workers[w].name, workers[w].email) IN
       /\ activities' = r.activities
       /\ workers' = [workers EXCEPT ![w] = IdleWorker("unregister", r.status)]
  /\ UNCHANGED <<TEACHER_CREDS, ADMIN_SESSIONS, now, issued, last>>

NextConc ==
  \/ \E c \in LoginInputs : Login(c[1], c[2])
  \/ \E w \in Workers, n \in ConcNameInputs, e \in EmailInputs : BeginSignup(w, n, e)
  \/ \E w \in Workers : FinishSignup(w)
  \/ \E w \in Workers, n \in ConcNameInputs, e \in EmailInputs, h \in ConcHeaderInputs :
        BeginUnregister(w, n, e, h)
  \/ \E w \in Workers : FinishUnregister(w)

SpecConc == Init /\ [][NextConc]_vars

(***************************************************************************)
(* Vocabulary of the properties.  Steps are read through the response the  *)
(* step leaves in last' and the state before it (unprimed).                *)
(***************************************************************************)
Participants(n) == activities[n].participants

\* the two header forms that carry token k
HeaderForms(k) == {k, BearerPrefix \o k}

\* the token a header carries: what follows "Bearer ", or the whole header
CarriedToken(h) ==
  IF Len(h) >= 7 /\ \A i \in 1..7 : h[i] = BearerPrefix[i]
  THEN [i \in 1..(Len(h) - 7) |-> h[i + 7]]
  ELSE h

\* the hour the stored expiry string of k denotes
ExpiryOf(sessions, k) == FromIsoFormat(sessions[k])

\* h carries a token that is in the session table and is within its 8 hours
PresentsValidToken(h) ==
  \E k \in DOMAIN ADMIN_SESSIONS :
    h \in HeaderForms(k) /\ now <= issued[k] + TTL_HOURS

IsError(status) == status \in {400, 401, 404}

(***************************************************************************)
(* C1: a signup returns 404 for a name that is not an activity, 400 for an *)
(* email already in that activity's participants, and otherwise 200 with   *)
(* the new participants list being the old one with the email appended.    *)
(***************************************************************************)
C1_SignupContract ==
  [][last'.op = "signup" =>
      \A n \in ActivityNameInputs, e \in EmailInputs :
        Signup(n, e) =>
          IF n \notin DOMAIN activities THEN last'.status = 404
          ELSE IF \E i \in DOMAIN Participants(n) : Participants(n)[i] = e
            THEN last'.status = 400
          ELSE /\ last'.status = 200
               /\ activities'[n].participants = Participants(n) \o <<e>>]_vars

C1_Witness ==
  /\ last.op = "signup" /\ last.status = 200
  /\ Participants("Chess Club") =
       <<"michael@mergington.edu", "daniel@mergington.edu", "new@mergington.edu">>

(***************************************************************************)
(* C2: an unregister that presents a valid admin token returns 404 for a   *)
(* name that is not an activity, 400 for an email not in the participants, *)
(* and otherwise 200, after which the email is no longer a participant     *)
(* and the activity has exactly one participant fewer.                     *)
(***************************************************************************)
C2_UnregisterContract ==
  [][(last'.op = "unregister" /\ PresentsValidToken(last'.hdr)) =>
      \A n \in ActivityNameInputs, e \in EmailInputs :
        Unregister(n, e, last'.hdr) =>
          IF n \notin DOMAIN activities THEN last'.status = 404
          ELSE IF \A i \in DOMAIN Participants(n) : Participants(n)[i] # e
            THEN last'.status = 400
          ELSE /\ last'.status = 200
               /\ \A i \in DOMAIN activities'[n].participants :
                     activities'[n].participants[i] # e
               /\ Len(activities'[n].participants) = Len(Participants(n)) - 1]_vars

C2_Witness ==
  /\ last.op = "unregister" /\ last.status = 200
  /\ Participants("Chess Club") = <<"daniel@mergington.edu">>

(***************************************************************************)
(* C3: an unregister whose header is absent, empty, garbage, or a logged-  *)
(* out or expired token returns 401 whatever the name and email are and    *)
(* leaves all participants unchanged; and a participant disappears from an *)
(* activity only in a step that is an unregister presenting a valid token. *)
(***************************************************************************)
C3_UnauthorizedUnregister ==
  [][/\ (last'.op = "unregister" /\ ~PresentsValidToken(last'.hdr)) =>
          (last'.status = 401 /\ activities' = activities)
     /\ (\E n \in DOMAIN activities : \E i \in DOMAIN Participants(n) :
            \A j \in DOMAIN activities'[n].participants :
               activities'[n].participants[j] # Participants(n)[i]) =>
          (last'.op = "unregister" /\ PresentsValidToken(last'.hdr))]_vars

\* an expired token was presented, for either header form
C3_Witness ==
  /\ last.op = "unregister" /\ last.status = 401
  /\ \E k \in DOMAIN issued :
       last.hdr = BearerPrefix \o k /\ now > issued[k] + TTL_HOURS

(***************************************************************************)
(* C4: for every token a login has returned, validation gives the same     *)
(* result for the raw token and for "Bearer " + token; and while the token *)
(* is in the table and unexpired, unregistering an enrolled email from an  *)
(* existing activity returns 200 with either form.                         *)
(***************************************************************************)
C4_BearerPrefixOptional ==
  \A k \in DOMAIN issued :
    /\ ValidateAdminToken(ADMIN_SESSIONS, k, now)
         = ValidateAdminToken(ADMIN_SESSIONS, BearerPrefix \o k, now)
    /\ (k \in DOMAIN ADMIN_SESSIONS /\ now <= issued[k] + TTL_HOURS) =>
         \A h \in HeaderForms(k) : \A n \in DOMAIN activities :
           \A i \in DOMAIN Participants(n) :
             UnregisterFromActivity(activities, ADMIN_SESSIONS, n,
                                    Participants(n)[i], h, now).status = 200

C4_Witness ==
  /\ last.op = "unregister" /\ last.status = 200
  /\ \E k \in DOMAIN issued : last.hdr = BearerPrefix \o k

(***************************************************************************)
(* C5: a token issued at hour T and not logged out is accepted at every    *)
(* hour t <= T+8 and rejected at every t > T+8, however often it was used; *)
(* the first validation after T+8 removes its entry.  Stated on steps: the *)
(* entry of a token is never changed while it stays in the table, it       *)
(* leaves the table within its 8 hours only by a logout, and a request     *)
(* that presents it is accepted exactly when it is in the table and        *)
(* t <= T+8, the entry being gone after a request at t > T+8.              *)
(***************************************************************************)
C5_ExpiryWindow ==
  [][\A k \in DOMAIN issued :
       /\ (k \in DOMAIN ADMIN_SESSIONS /\ k \in DOMAIN ADMIN_SESSIONS') =>
            ADMIN_SESSIONS'[k] = ADMIN_SESSIONS[k]
       /\ (k \in DOMAIN ADMIN_SESSIONS /\ k \notin DOMAIN ADMIN_SESSIONS'
             /\ now <= issued[k] + TTL_HOURS) =>
            last'.op = "logout"
       /\ (last'.op = "unregister" /\ last'.hdr \in HeaderForms(k)) =>
            /\ (k \in DOMAIN ADMIN_SESSIONS /\ now <= issued[k] + TTL_HOURS) =>
                 (last'.status # 401 /\ k \in DOMAIN ADMIN_SESSIONS')
            /\ now > issued[k] + TTL_HOURS =>
                 (last'.status = 401 /\ k \notin DOMAIN ADMIN_SESSIONS')]_vars

\* a token was presented at hour T+8 exactly, and accepted
C5_Witness ==
  /\ last.op = "unregister" /\ last.status # 401
  /\ \E k \in DOMAIN issued :
       last.hdr \in HeaderForms(k) /\ now = issued[k] + TTL_HOURS

(***************************************************************************)
(* C6: a logout that carries an issued token, raw or prefixed, leaves it   *)
(* out of the session table; a token that has left the table never         *)
(* re-enters it, whatever logins and other requests follow; and every      *)
(* unregister that presents such a token in either form returns 401.       *)
(***************************************************************************)
C6_LogoutIsFinal ==
  [][\A k \in DOMAIN issued :
       /\ (last'.op = "logout" /\ last'.hdr \in HeaderForms(k)) =>
            k \notin DOMAIN ADMIN_SESSIONS'
       /\ k \notin DOMAIN ADMIN_SESSIONS => k \notin DOMAIN ADMIN_SESSIONS'
       /\ (last'.op = "unregister" /\ last'.hdr \in HeaderForms(k)
             /\ k \notin DOMAIN ADMIN_SESSIONS) =>
            last'.status = 401]_vars

\* a token that left the table within its 8 hours (so by a logout) is
\* refused while a later login's session exists
C6_Witness ==
  /\ last.op = "unregister" /\ last.status = 401
  /\ DOMAIN ADMIN_SESSIONS # {}
  /\ \E k \in DOMAIN issued :
       /\ last.hdr \in HeaderForms(k)
       /\ k \notin DOMAIN ADMIN_SESSIONS
       /\ now <= issued[k] + TTL_HOURS

(***************************************************************************)
(* C7: a login returns 400 when username or password is missing or empty   *)
(* and 401 when no loaded credential has both values, the session table    *)
(* being unchanged in both cases; on a match it returns 200 with a token   *)
(* that was not in the table, the table gains exactly that entry with an   *)
(* expiry 8 hours from now, and every other entry is unchanged.            *)
(***************************************************************************)
C7_LoginContract ==
  [][last'.op = "login" =>
      \A c \in LoginInputs :
        Login(c[1], c[2]) =>
          IF c[1] \in {None, ""} \/ c[2] \in {None, ""}
            THEN last'.status = 400 /\ ADMIN_SESSIONS' = ADMIN_SESSIONS
          ELSE IF [username |-> c[1], password |-> c[2]]
                    \notin {TEACHER_CREDS.teachers[i] : i \in DOMAIN TEACHER_CREDS.teachers}
            THEN last'.status = 401 /\ ADMIN_SESSIONS' = ADMIN_SESSIONS
          ELSE /\ last'.status = 200
               /\ last'.token \notin DOMAIN ADMIN_SESSIONS
               /\ DOMAIN ADMIN_SESSIONS' = DOMAIN ADMIN_SESSIONS \cup {last'.token}
               /\ ExpiryOf(ADMIN_SESSIONS', last'.token) = now + TTL_HOURS
               /\ \A k \in DOMAIN ADMIN_SESSIONS : ADMIN_SESSIONS'[k] = ADMIN_SESSIONS[k]]_vars

\* a second login succeeded while the first token is still in the table
C7_Witness ==
  /\ last.op = "login" /\ last.status = 200
  /\ last.token \in DOMAIN ADMIN_SESSIONS
  /\ Cardinality(DOMAIN ADMIN_SESSIONS) = 2

(***************************************************************************)
(* C8: a logout without an Authorization header returns 400 and changes    *)
(* nothing; with a non-empty header it returns 200 whether or not the      *)
(* carried token is in the table, the token is not in the table afterwards,*)
(* all other entries are unchanged, and the same logout again returns 200  *)
(* and leaves the table as it is.                                          *)
(***************************************************************************)
C8_LogoutIdempotent ==
  [][last'.op = "logout" =>
      LET h == last'.hdr
          k == CarriedToken(h) IN
      /\ activities' = activities
      /\ h = NoHeader => (last'.status = 400 /\ ADMIN_SESSIONS' = ADMIN_SESSIONS)
      /\ (h # NoHeader /\ h # <<>>) =>
           /\ last'.status = 200
           /\ DOMAIN ADMIN_SESSIONS' = DOMAIN ADMIN_SESSIONS \ {k}
           /\ \A j \in DOMAIN ADMIN_SESSIONS' : ADMIN_SESSIONS'[j] = ADMIN_SESSIONS[j]
           /\ AdminLogout(ADMIN_SESSIONS', h).status = 200
           /\ AdminLogout(ADMIN_SESSIONS', h).sessions = ADMIN_SESSIONS']_vars

\* a logout of a token that is not in the table (any more) returned 200
\* while another session stayed in the table
C8_Witness ==
  /\ last.op = "logout" /\ last.status = 200
  /\ CarriedToken(last.hdr) \in DOMAIN issued
  /\ CarriedToken(last.hdr) \notin DOMAIN ADMIN_SESSIONS
  /\ DOMAIN ADMIN_SESSIONS # {}

(***************************************************************************)
(* C9: a signup or unregister that ends with 400, 401 or 404 leaves the    *)
(* activity store as it was; in particular a signup of an email that is    *)
(* already enrolled returns 400, and an authenticated unregister of an     *)
(* email that is not enrolled returns 400, with the store unchanged.       *)
(***************************************************************************)
C9_ErrorsChangeNothing ==
  [][/\ (last'.op \in {"signup", "unregister"} /\ IsError(last'.status)) =>
          activities' = activities
     /\ last'.op = "signup" =>
          \A n \in ActivityNameInputs \cap DOMAIN activities, e \in EmailInputs :
            (Signup(n, e) /\ \E i \in DOMAIN Participants(n) : Participants(n)[i] = e) =>
              (last'.status = 400 /\ activities' = activities)
     /\ (last'.op = "unregister" /\ PresentsValidToken(last'.hdr)) =>
          \A n \in ActivityNameInputs \cap DOMAIN activities, e \in EmailInputs :
            (Unregister(n, e, last'.hdr)
               /\ \A i \in DOMAIN Participants(n) : Participants(n)[i] # e) =>
              (last'.status = 400 /\ activities' = activities)]_vars

\* the student signed up by an earlier request was refused a second signup
C9_Witness ==
  /\ last.op = "signup" /\ last.status = 400
  /\ Participants("Chess Club") =
       <<"daniel@mergington.edu", "new@mergington.edu">>

(***************************************************************************)
(* C10 as stated: for a name that is not in the seed set, a signup and an  *)
(* unregister return 404 for every email and every Authorization header.   *)
(***************************************************************************)
C10_UnknownActivityAlways404 ==
  [][last'.op \in {"signup", "unregister"} =>
      \A n \in ActivityNameInputs \ DOMAIN SeedActivities, e \in EmailInputs :
        /\ Signup(n, e) => last'.status = 404
        /\ Unregister(n, e, last'.hdr) => last'.status = 404]_vars

(***************************************************************************)
(* C10 amended: for a name that is not in the seed set, a signup returns   *)
(* 404 for every email; an unregister returns 404 for every email when it  *)
(* presents a valid admin token, and 401 when it does not.                 *)
(***************************************************************************)
C10_UnknownActivity ==
  [][last'.op \in {"signup", "unregister"} =>
      \A n \in ActivityNameInputs \ DOMAIN SeedActivities, e \in EmailInputs :
        /\ Signup(n, e) => last'.status = 404
        /\ Unregister(n, e, last'.hdr) =>
             last'.status = IF PresentsValidToken(last'.hdr) THEN 404 ELSE 401]_vars

C10_Witness ==
  /\ last.op = "unregister" /\ last.status = 404
  /\ \E k \in DOMAIN ADMIN_SESSIONS : last.hdr \in HeaderForms(k)

(***************************************************************************)
(* C11: in every state reachable by requests handled one at a time, no     *)
(* activity's participants list holds an email more than once.             *)
(***************************************************************************)
C11_ParticipantsUnique ==
  \A n \in DOMAIN activities :
    \A i, j \in DOMAIN Participants(n) :
      Participants(n)[i] = Participants(n)[j] => i = j

\* a signup was refused while Chess Club holds both seeded students and the
\* new one
C11_Witness ==
  /\ last.op = "signup" /\ last.status = 400
  /\ Len(Participants("Chess Club")) = 3

(***************************************************************************)
(* C13: a list request returns 200 with the whole current store, that is   *)
(* every activity with the participants the earlier signups and            *)
(* unregisters left, and changes neither the store nor the session table.  *)
(***************************************************************************)
C13_ListReturnsStore ==
  [][last'.op = "list" =>
      /\ last'.status = 200
      /\ last'.body = activities
      /\ activities' = activities
      /\ ADMIN_SESSIONS' = ADMIN_SESSIONS]_vars

\* the listing shows the student an earlier signup added
C13_Witness ==
  /\ last.op = "list"
  /\ last.body["Chess Club"].participants =
       <<"michael@mergington.edu", "daniel@mergington.edu", "new@mergington.edu">>

(***************************************************************************)
(* C14: the status of a signup and the store it leaves are a function of   *)
(* the store, the name and the email alone, the same whatever the session  *)
(* table and the credentials hold, and a signup leaves the session         *)
(* table untouched; an unregister changes the store only when it presents  *)
(* a valid admin token.                                                    *)
(***************************************************************************)
C14_SignupNeedsNoSession ==
  [][/\ last'.op = "signup" =>
          /\ ADMIN_SESSIONS' = ADMIN_SESSIONS
          /\ TEACHER_CREDS' = TEACHER_CREDS
          /\ \A n \in ActivityNameInputs, e \in EmailInputs :
               Signup(n, e) =>
                 LET known == n \in DOMAIN activities
                     enrolled == known /\ \E i \in DOMAIN Participants(n) : Participants(n)[i] = e
                 IN /\ last'.status = IF ~known THEN 404 ELSE IF enrolled THEN 400 ELSE 200
                    /\ activities' = IF known /\ ~enrolled
                                       THEN [activities EXCEPT ![n].participants = @ \o <<e>>]
                                       ELSE activities
     /\ (last'.op = "unregister" /\ activities' # activities) =>
          PresentsValidToken(last'.hdr)]_vars

\* a signup succeeded where no teacher can log in and no session exists
C14_Witness ==
  /\ last.op = "signup" /\ last.status = 200
  /\ Len(TEACHER_CREDS.teachers) = 0
  /\ DOMAIN ADMIN_SESSIONS = {}

(***************************************************************************)
(* C17: participants are in enrolment order.  Stated on steps: a step      *)
(* leaves each participants list as it was, or is a successful signup that *)
(* puts a student who was not enrolled at the end, or is a successful      *)
(* unregister that takes one student out and keeps the others in their     *)
(* order; so a student who is unregistered and signs up again is last.     *)
(***************************************************************************)
C17_EnrolmentOrder ==
  [][\A n \in DOMAIN activities :
       LET P == Participants(n)
           Q == activities'[n].participants IN
       \/ Q = P
       \/ /\ last'.op = "signup" /\ last'.status = 200
          /\ \E e \in EmailInputs :
               /\ \A i \in DOMAIN P : P[i] # e
               /\ Q = P \o <<e>>
       \/ /\ last'.op = "unregister" /\ last'.status = 200
          /\ \E e \in EmailInputs :
               LET Keep(x) == x # e IN
               /\ \E i \in DOMAIN P : P[i] = e
               /\ Q = SelectSeq(P, Keep)]_vars

\* the seeded student who was unregistered and signed up again is last
C17_Witness ==
  /\ last.op = "signup" /\ last.status = 200
  /\ Participants("Chess Club") =
       <<"daniel@mergington.edu", "new@mergington.edu", "michael@mergington.edu">>

(***************************************************************************)
(* C18: the activity names stay the seed names and every description,      *)
(* schedule and max_participants stays its seed value; a signup or         *)
(* unregister changes nothing outside the participants of the activity it  *)
(* names; login, logout and the other requests change no activity record.  *)
(***************************************************************************)
C18_RecordsFixed ==
  [][/\ DOMAIN activities' = DOMAIN SeedActivities
     /\ \A n \in DOMAIN SeedActivities :
          /\ activities'[n].description = SeedActivities[n].description
          /\ activities'[n].schedule = SeedActivities[n].schedule
          /\ activities'[n].max_participants = SeedActivities[n].max_participants
     /\ last'.op = "signup" =>
          \A n \in ActivityNameInputs, e \in EmailInputs :
            Signup(n, e) =>
              \A m \in DOMAIN activities \ {n} : activities'[m] = activities[m]
     /\ last'.op = "unregister" =>
          \A n \in ActivityNameInputs, e \in EmailInputs :
            Unregister(n, e, last'.hdr) =>
              \A m \in DOMAIN activities \ {n} : activities'[m] = activities[m]
     /\ last'.op \notin {"signup", "unregister"} => activities' = activities]_vars

\* Chess Club gained a student and lost one while the other eight
\* activities are as seeded
C18_Witness ==
  /\ last.op = "unregister" /\ last.status = 200
  /\ Participants("Chess Club") = <<"daniel@mergington.edu", "new@mergington.edu">>
  /\ \A m \in DOMAIN activities \ {"Chess Club"} : activities[m] = SeedActivities[m]

(***************************************************************************)
(* C20: an entry leaves the session table only in a logout that carries    *)
(* its token or in a validation of its token after its expiry; no step     *)
(* changes the expiry of an entry that stays (no renewal).  So signup,     *)
(* list, login, a logout of another token and a validation of an unexpired *)
(* or unknown token keep every entry, and an expired entry whose token is  *)
(* not presented stays in the table.                                       *)
(***************************************************************************)
C20_SessionLifecycle ==
  [][\A k \in DOMAIN ADMIN_SESSIONS :
       IF k \in DOMAIN ADMIN_SESSIONS'
         THEN ADMIN_SESSIONS'[k] = ADMIN_SESSIONS[k]
         ELSE \/ last'.op = "logout" /\ last'.hdr \in HeaderForms(k)
              \/ /\ last'.op = "unregister" /\ last'.hdr \in HeaderForms(k)
                 /\ now > issued[k] + TTL_HOURS]_vars

\* an expired entry is still in the table after a request that presented
\* an unknown token
C20_Witness ==
  /\ last.op = "unregister" /\ last.hdr = <<"z", "z">>
  /\ \E k \in DOMAIN ADMIN_SESSIONS : now > issued[k] + TTL_HOURS

(***************************************************************************)
(* C15 as stated: in every interleaving of signup and unregister handlers, *)
(* with the membership check and the list mutation as separate steps,      *)
(* every request finishes with 200, 400, 401 or 404.                       *)
(***************************************************************************)
C15_DocumentedOutcomes ==
  \A w \in Workers :
    workers[w].pc = "idle" => workers[w].status \in {0, 200, 400, 401, 404}

(***************************************************************************)
(* C16: nothing excludes two signup handlers from each other.  The append  *)
(* step of a signup does not look at the list again: it returns 200 and    *)
(* puts the email at the end also when another handler has added the same  *)
(* email since the membership check; and a list comes to hold an email     *)
(* twice only by such an append.                                           *)
(***************************************************************************)
C16_AppendWithoutRecheck ==
  [][/\ \A w \in Workers :
          (workers[w].pc = "append" /\ workers'[w].pc = "idle") =>
            /\ workers'[w].status = 200
            /\ activities'[workers[w].name].participants =
                 Participants(workers[w].name) \o <<workers[w].email>>
     /\ \A n \in DOMAIN activities : \A e \in EmailInputs :
          (Count(Participants(n), e) < 2 /\ Count(activities'[n].participants, e) >= 2) =>
            \E w \in Workers :
              /\ workers[w].pc = "append" /\ workers'[w].pc = "idle"
              /\ workers[w].name = n /\ workers[w].email = e
              /\ Count(Participants(n), e) = 1]_vars

\* both handlers returned 200 and the email is in the list twice
C16_Witness ==
  /\ \A w \in Workers :
       workers[w].pc = "idle" /\ workers[w].op = "signup" /\ workers[w].status = 200
  /\ Count(Participants("Chess Club"), "new@mergington.edu") = 2

(***************************************************************************)
(* C19: a signup of a student who is not enrolled returns 200 and appends  *)
(* the email also when the activity already holds max_participants         *)
(* students or more, so lists longer than max_participants are reachable.  *)
(***************************************************************************)
C19_NoCapacityCheck ==
  [][last'.op = "signup" =>
      \A e \in CapacityEmailInputs :
        LET P == Participants("Math Club") IN
        (/\ Signup("Math Club", e)
         /\ \A i \in DOMAIN P : P[i] # e
         /\ Len(P) >= activities["Math Club"].max_participants) =>
          /\ last'.status = 200
          /\ activities'["Math Club"].participants = P \o <<e>>]_vars

\* Math Club holds more students than max_participants after a signup
C19_Witness ==
  /\ last.op = "signup" /\ last.status = 200
  /\ Len(Participants("Math Club")) > activities["Math Club"].max_participants

(***************************************************************************)
(* C12: when the credential file is missing, unreadable or malformed (not  *)
(* JSON, or JSON of another shape than {"teachers": [{username,            *)
(* password}, ...]}), every login with a non-empty username and password   *)
(* returns 401, the session table stays empty and no unregister request    *)
(* succeeds.                                                               *)
(***************************************************************************)
C12_CredentialFailSafe ==
  [][/\ DOMAIN ADMIN_SESSIONS' = {}
     /\ last'.op = "login" =>
          \A c \in LoginInputs :
            (Login(c[1], c[2]) /\ Truthy(c[1]) /\ Truthy(c[2])) => last'.status = 401
     /\ last'.op = "unregister" => last'.status # 200]_vars

====
